---- MODULE Spec2Model ----
(***************************************************************************)
(* Black-Scholes calculator: the CalculatorForm and BatchCalculator React  *)
(* components (both revisions of each), and the pricing engine's input     *)
(* validation and batch evaluation.                                        *)
(*                                                                         *)
(* Numbers are exact rationals n/d (d > 0, lowest terms); the two other    *)
(* values a JavaScript "number" slot holds in these components are the     *)
(* empty string ('' as unknown as number) and NaN.                         *)
(***************************************************************************)
EXTENDS Integers, Sequences, FiniteSets, TLC

VARIABLES
    mounted,        \* which component is rendered, or which module is exercised
    event,          \* the DOM event most recently handled
    formData,       \* CalculatorForm: useState formData
    errors,         \* CalculatorForm: useState errors (partial record)
    rateMode,       \* useState rateMode ('percent' | 'decimal')
    onSubmitArg,    \* CalculatorForm: argument of the onSubmit call made by the last handler
    calculations,   \* BatchCalculator: useState calculations
    results,        \* BatchCalculator: useState results
    isLoading,      \* BatchCalculator, App: useState isLoading
    error,          \* BatchCalculator, HistoryView, App: useState error
    request,        \* BatchCalculator: body of the batch request in flight
    inputs,         \* pricing engine: the ordered inputs given to priceBatch
    batchResult,    \* pricing engine: the BatchResult returned for them
    evaluated,      \* pricing engine: the rows evaluated so far, in order of completion
    calls,          \* pricing engine: the price calls made so far, with what each returned
    response,       \* api: what fetch settled with for the call made last
    promise,        \* api: what the call made last settled with
    stored,         \* backend: ids of the stored calculations, newest first
    history,        \* HistoryView: useState history (ids of the rows held)
    loading,        \* HistoryView: useState loading
    loads,          \* HistoryView: the loadHistory calls that have not returned yet
    settledLast,    \* HistoryView: how the load that returned last ended
    selectedRows,   \* HistoryView: useState selectedRows
    toastMessage,   \* HistoryView: useState toastMessage
    toastType,      \* HistoryView: useState toastType
    currentPage,    \* HistoryView: useState currentPage
    itemsPerPage,   \* HistoryView: useState itemsPerPage
    totalCount,     \* HistoryView: useState totalCount
    deletes,        \* HistoryView: the deleteHistoryEntries calls awaited
    output,         \* HistoryView: what was last written to the clipboard or downloaded
    currentResult,  \* App: useState currentResult
    activeTab,      \* App: useState activeTab
    calculating     \* App: the calculateBlackScholes calls awaited

vars == <<mounted, event, formData, errors, rateMode, onSubmitArg,
          calculations, results, isLoading, error, request, inputs, batchResult,
          evaluated, calls, response, promise,
          stored, history, loading, loads, settledLast, selectedRows,
          toastMessage, toastType, currentPage, itemsPerPage, totalCount, deletes, output,
          currentResult, activeTab, calculating>>

formVars == <<formData, errors, onSubmitArg>>
batchVars == <<calculations, results, isLoading, error, request>>
engineVars == <<inputs, batchResult, evaluated, calls>>
apiVars == <<response, promise>>
historyVars == <<stored, history, loading, loads, settledLast, selectedRows,
                 toastMessage, toastType, currentPage, itemsPerPage, totalCount, deletes,
                 output>>
appVars == <<currentResult, activeTab, calculating>>
others == <<apiVars, historyVars, appVars>>

\* what a handler of one component leaves alone
notForm == <<mounted, batchVars, engineVars, others>>
notBatch == <<mounted, formVars, engineVars, others>>
notEngine == <<mounted, event, rateMode, formVars, batchVars, others>>
notApi == <<mounted, event, rateMode, formVars, batchVars, engineVars, historyVars, appVars>>
notHistory == <<mounted, rateMode, formVars, calculations, results, isLoading, request,
                engineVars, apiVars, appVars>>
notApp == <<mounted, rateMode, calculations, results, request,
            engineVars, apiVars, historyVars>>

(***************************************************************************)
(* JavaScript number values                                                *)
(***************************************************************************)
Abs(i) == IF i < 0 THEN -i ELSE i

RECURSIVE GCD(_, _)
GCD(a, b) == IF b = 0 THEN a ELSE GCD(b, a % b)

\* the rational n/d in lowest terms
Rat(n, d) ==
    LET g == GCD(Abs(n), d)
    IN  [k |-> "num", n |-> n \div g, d |-> d \div g]

Num(i) == Rat(i, 1)

EmptyString == [k |-> "empty", n |-> 0, d |-> 1]
NaN == [k |-> "nan", n |-> 0, d |-> 1]

\* ToNumber: '' converts to 0, numbers and NaN to themselves
ToNumber(v) == IF v.k = "empty" THEN Num(0) ELSE v

\* a === b: same type and value, and NaN equals nothing
StrictEquals(a, b) == a.k # "nan" /\ b.k # "nan" /\ a = b

\* a < b and a <= b: false when either side is NaN
LessThan(a, b) ==
    LET x == ToNumber(a)
        y == ToNumber(b)
    IN  x.k = "num" /\ y.k = "num" /\ x.n * y.d < y.n * x.d

LessEq(a, b) ==
    LET x == ToNumber(a)
        y == ToNumber(b)
    IN  x.k = "num" /\ y.k = "num" /\ x.n * y.d <= y.n * x.d

GreaterThan(a, b) == LessThan(b, a)

\* a / b for a non-zero number b
Divide(a, b) ==
    LET x == ToNumber(a)
        y == ToNumber(b)
    IN  IF x.k = "nan" \/ y.k = "nan" THEN NaN
        ELSE IF y.n < 0 THEN Rat(-(x.n * y.d), x.d * (-y.n))
        ELSE Rat(x.n * y.d, x.d * y.n)

isNaN(v) == ToNumber(v).k = "nan"

\* truthiness of a number slot: 0, NaN and '' are falsy
Truthy(v) == v.k = "num" /\ v.n # 0

(***************************************************************************)
(* Text of an <input type="number">: empty, or a decimal literal with two  *)
(* decimals (step="0.01").                                                 *)
(***************************************************************************)
BlankText == [neg |-> FALSE, whole |-> 0, frac |-> 0, blank |-> TRUE]
Text(neg, whole, frac) == [neg |-> neg, whole |-> whole, frac |-> frac, blank |-> FALSE]

\* parseFloat: NaN when the text does not start with a number
parseFloat(text) ==
    IF text.blank THEN NaN
    ELSE LET hundredths == text.whole * 100 + text.frac
         IN  Rat(IF text.neg THEN -hundredths ELSE hundredths, 100)

Fields == {"s0", "x", "t", "r", "d", "v"}

\* Object.keys(formData): insertion order of the initial object
Keys == <<"s0", "x", "t", "r", "d", "v">>

\* what the user types into each field
Typed(name) ==
    CASE name = "s0" -> {BlankText, Text(TRUE, 1, 0), Text(FALSE, 0, 0), Text(FALSE, 100, 0)}
      [] name = "x"  -> {Text(FALSE, 0, 0), Text(FALSE, 100, 0)}
      [] name = "t"  -> {Text(TRUE, 1, 0), Text(FALSE, 1, 0)}
      [] name = "r"  -> {Text(TRUE, 1, 0), Text(FALSE, 5, 0), Text(FALSE, 150, 0)}
      [] name = "d"  -> {BlankText, Text(FALSE, 2, 0)}
      [] name = "v"  -> {Text(TRUE, 1, 0), Text(FALSE, 0, 0), Text(FALSE, 0, 50)}

NoEvent == [type |-> "mount", index |-> 0, name |-> "", value |-> BlankText]
ChangeEvent(index, name, text) == [type |-> "change", index |-> index, name |-> name, value |-> text]
ClickEvent(type, index) == [type |-> type, index |-> index, name |-> "", value |-> BlankText]

(***************************************************************************)
(* CalculatorForm, first revision (rates always entered as percentages)    *)
(***************************************************************************)
Undefined == ""
NoErrors == [f \in {} |-> ""]
NoCall == [f \in {} |-> NaN]

InitialFormData ==
    [f \in Fields |->
        CASE f = "s0" -> Num(100)
          [] f = "x"  -> Num(100)
          [] f = "t"  -> Num(1)
          [] f = "r"  -> Num(5)
          [] f = "d"  -> Num(2)
          [] f = "v"  -> Num(20)]

InitialRow == InitialFormData
NoResults == [total |-> -1]
NoRequest == <<>>
NoError == ""

\* validateField with the sign test written as < 0: zero slips through
validateFieldZeroAccepted(name, value) ==
    IF StrictEquals(value, EmptyString) \/ StrictEquals(value, NaN)
    THEN name \o " is required"
    ELSE IF isNaN(value)
    THEN name \o " must be a number"
    ELSE IF name \in {"s0", "x", "t"} /\ LessThan(value, Num(0))
    THEN name \o " must be greater than 0"
    ELSE IF name \in {"r", "d", "v"} /\ (LessThan(value, Num(0)) \/ GreaterThan(value, Num(100)))
    THEN name \o " should be between 0 and 100"
    ELSE ""

validateField(name, value) ==
    IF StrictEquals(value, EmptyString) \/ StrictEquals(value, NaN)
    THEN name \o " is required"
    ELSE IF isNaN(value)
    THEN name \o " must be a number"
    ELSE IF name \in {"s0", "x", "t"} /\ LessEq(value, Num(0))
    THEN name \o " must be greater than 0"
    ELSE IF name \in {"r", "d", "v"} /\ (LessThan(value, Num(0)) \/ GreaterThan(value, Num(100)))
    THEN name \o " should be between 0 and 100"
    ELSE Undefined

\* delete newErrors[name]
Delete(errs, name) == [f \in DOMAIN errs \ {name} |-> errs[f]]

\* newErrors[key] = error
Put(errs, key, msg) == [f \in DOMAIN errs \cup {key} |-> IF f = key THEN msg ELSE errs[f]]

handleChange(name, text) ==
    LET numValue == IF text.blank THEN EmptyString ELSE parseFloat(text)
    IN  /\ formData' = [formData EXCEPT ![name] = numValue]
        /\ errors' = IF name \in DOMAIN errors /\ errors[name] # "" THEN Delete(errors, name) ELSE errors

\* the loop stopping at the first error found
RECURSIVE CollectErrorsFirst(_, _, _)
CollectErrorsFirst(data, i, newErrors) ==
    IF i > 6 \/ DOMAIN newErrors # {} THEN newErrors
    ELSE LET err == validateFieldZeroAccepted(<<"s0", "x", "t", "r", "d", "v">>[i], data[<<"s0", "x", "t", "r", "d", "v">>[i]])
         IN  CollectErrorsFirst(data, i + 1,
                 IF err # "" THEN [f \in {<<"s0", "x", "t", "r", "d", "v">>[i]} |-> err] ELSE newErrors)

\* the forEach over Object.keys(formData) of handleSubmit, from key i on
RECURSIVE CollectErrors(_, _, _)
CollectErrors(data, i, newErrors) ==
    IF i > Len(Keys) THEN newErrors
    ELSE LET err == validateField(Keys[i], data[Keys[i]])
         IN  CollectErrors(data, i + 1, IF err # "" THEN Put(newErrors, Keys[i], err) ELSE newErrors)

\* the payload with the rates left in percent
PayloadUnconverted(data) == data

\* "Convert percentages to decimals": the payload handleSubmit passes to onSubmit
Payload(data) ==
    [data EXCEPT !["r"] = Divide(@, Num(100)),
                 !["d"] = Divide(@, Num(100)),
                 !["v"] = Divide(@, Num(100))]

HandleChange ==
    /\ mounted = "CalculatorForm"
    /\ \E name \in Fields : \E text \in Typed(name) :
        /\ handleChange(name, text)
        /\ event' = ChangeEvent(0, name, text)
    /\ onSubmitArg' = NoCall
    /\ UNCHANGED <<rateMode, notForm>>

\* handleSubmit without the early return: onSubmit is called whatever the errors
HandleSubmitNoReturn ==
    /\ mounted = "CalculatorForm"
    /\ event' = ClickEvent("submit", 0)
    /\ LET newErrors == CollectErrors(formData, 1, NoErrors)
       IN  /\ errors' = IF DOMAIN newErrors # {} THEN newErrors ELSE errors
           /\ onSubmitArg' = Payload(formData)
    /\ UNCHANGED <<formData, rateMode, notForm>>

HandleSubmit ==
    /\ mounted = "CalculatorForm"
    /\ event' = ClickEvent("submit", 0)
    /\ LET newErrors == CollectErrors(formData, 1, NoErrors)
           hasErrors == DOMAIN newErrors # {}
       IN  IF hasErrors
           THEN /\ errors' = newErrors
                /\ onSubmitArg' = NoCall
           ELSE /\ onSubmitArg' = Payload(formData)
                /\ errors' = errors
    /\ UNCHANGED <<formData, rateMode, notForm>>


(***************************************************************************)
(* CalculatorForm, second revision (Percent / Decimal rate input toggle)   *)
(***************************************************************************)
\* validateField of the second revision with no range check on r and d
validateFieldRateNoRange(mode, name, value) ==
    IF StrictEquals(value, EmptyString) \/ StrictEquals(value, NaN)
    THEN name \o " is required"
    ELSE IF isNaN(value)
    THEN name \o " must be a number"
    ELSE IF name \in {"s0", "x", "t"} /\ LessEq(value, Num(0))
    THEN name \o " must be greater than 0"
    ELSE IF name = "v" /\ mode = "percent"
            /\ (LessThan(value, Num(0)) \/ GreaterThan(value, Num(100)))
    THEN name \o " should be between 0 and 100 when entered as a percentage"
    ELSE IF name = "v" /\ mode # "percent" /\ LessThan(value, Num(0))
    THEN name \o " must be non-negative"
    ELSE ""

\* validateField of the second revision with decimal entries capped at 1
validateFieldRateDecimalCapped(mode, name, value) ==
    IF StrictEquals(value, EmptyString) \/ StrictEquals(value, NaN)
    THEN name \o " is required"
    ELSE IF isNaN(value)
    THEN name \o " must be a number"
    ELSE IF name \in {"s0", "x", "t"} /\ LessEq(value, Num(0))
    THEN name \o " must be greater than 0"
    ELSE IF name \in {"r", "d", "v"} /\ mode = "percent"
            /\ (LessThan(value, Num(0)) \/ GreaterThan(value, Num(100)))
    THEN name \o " should be between 0 and 100 when entered as a percentage"
    ELSE IF name \in {"r", "d", "v"} /\ mode # "percent"
            /\ (LessThan(value, Num(0)) \/ GreaterThan(value, Num(1)))
    THEN name \o " must be non-negative"
    ELSE ""

validateFieldRate(mode, name, value) ==
    IF StrictEquals(value, EmptyString) \/ StrictEquals(value, NaN)
    THEN name \o " is required"
    ELSE IF isNaN(value)
    THEN name \o " must be a number"
    ELSE IF name \in {"s0", "x", "t"} /\ LessEq(value, Num(0))
    THEN name \o " must be greater than 0"
    ELSE IF name \in {"r", "d", "v"} /\ mode = "percent"
            /\ (LessThan(value, Num(0)) \/ GreaterThan(value, Num(100)))
    THEN name \o " should be between 0 and 100 when entered as a percentage"
    ELSE IF name \in {"r", "d", "v"} /\ mode # "percent" /\ LessThan(value, Num(0))
    THEN name \o " must be non-negative"
    ELSE Undefined

RECURSIVE CollectErrorsRate(_, _, _, _)
CollectErrorsRate(mode, data, i, newErrors) ==
    IF i > Len(Keys) THEN newErrors
    ELSE LET err == validateFieldRate(mode, Keys[i], data[Keys[i]])
         IN  CollectErrorsRate(mode, data, i + 1,
                               IF err # "" THEN Put(newErrors, Keys[i], err) ELSE newErrors)

toDecimal(mode, value) == IF mode = "percent" THEN Divide(value, Num(100)) ELSE value

PayloadRate(mode, data) ==
    [data EXCEPT !["r"] = toDecimal(mode, @),
                 !["d"] = toDecimal(mode, @),
                 !["v"] = toDecimal(mode, @)]

HandleChangeRate ==
    /\ mounted = "CalculatorFormRate"
    /\ \E name \in Fields : \E text \in Typed(name) :
        /\ handleChange(name, text)
        /\ event' = ChangeEvent(0, name, text)
    /\ onSubmitArg' = NoCall
    /\ UNCHANGED <<rateMode, notForm>>

HandleSubmitRate ==
    /\ mounted = "CalculatorFormRate"
    /\ event' = ClickEvent("submit", 0)
    /\ LET newErrors == CollectErrorsRate(rateMode, formData, 1, NoErrors)
           hasErrors == DOMAIN newErrors # {}
       IN  IF hasErrors
           THEN /\ errors' = newErrors
                /\ onSubmitArg' = NoCall
           ELSE /\ onSubmitArg' = PayloadRate(rateMode, formData)
                /\ errors' = errors
    /\ UNCHANGED <<formData, rateMode, notForm>>

\* a toggle that also clears the recorded errors
SetRateModeClearingErrors ==
    /\ mounted = "CalculatorFormRate"
    /\ \E mode \in {"percent", "decimal"} :
        /\ rateMode' = mode
        /\ event' = ClickEvent(mode, 0)
    /\ onSubmitArg' = NoCall
    /\ errors' = NoErrors
    /\ UNCHANGED <<formData, notForm>>

\* the two toggle buttons: onClick={() => setRateMode(...)}
SetRateMode ==
    /\ mounted = "CalculatorFormRate"
    /\ \E mode \in {"percent", "decimal"} :
        /\ rateMode' = mode
        /\ event' = ClickEvent(mode, 0)
    /\ onSubmitArg' = NoCall
    /\ UNCHANGED <<formData, errors, notForm>>

(***************************************************************************)
(* Pricing engine: InputValidator, PricingFormula, price and priceBatch    *)
(***************************************************************************)
\* the fields InputValidator constrains, in the order it lists them
Validated == <<"s0", "x", "t", "v">>

RECURSIVE Violations(_, _)
Violations(input, i) ==
    IF i > Len(Validated) THEN <<>>
    ELSE LET f == Validated[i]
         IN  (IF LessEq(input[f], Num(0)) THEN <<f \o " must be greater than 0">> ELSE <<>>)
             \o Violations(input, i + 1)

\* Ok is the empty list of violations
InputValidator(input) == Violations(input, 1)

\* d1, d2 and the two prices are functions of the six inputs alone; they are kept
\* as terms over the input, which the result echoes
PricingFormula(input) ==
    [s0 |-> input["s0"], x |-> input["x"], t |-> input["t"],
     r |-> input["r"], d |-> input["d"], v |-> input["v"],
     d1 |-> <<"d1", input>>, d2 |-> <<"d2", input>>,
     call_price |-> <<"call_price", input>>, put_price |-> <<"put_price", input>>]

NoValue == [s0 |-> NaN]

price(input) ==
    LET violations == InputValidator(input)
    IN  IF violations = <<>>
        THEN [ok |-> TRUE, value |-> PricingFormula(input), violations |-> <<>>]
        ELSE [ok |-> FALSE, value |-> NoValue, violations |-> violations]

\* a failing row left out of the count
EvaluateRowUncounted(acc, input) ==
    LET outcome == price(input)
    IN  IF outcome.ok
        THEN [acc EXCEPT !.results = Append(@, outcome.value), !.successful = @ + 1]
        ELSE acc

\* results collected newest first
EvaluateRowPrepend(acc, input) ==
    LET outcome == price(input)
    IN  IF outcome.ok
        THEN [acc EXCEPT !.results = <<outcome.value>> \o @, !.successful = @ + 1]
        ELSE [acc EXCEPT !.failed = @ + 1]

\* one row of the batch: a result appended, or one more failure
EvaluateRow(acc, input) ==
    LET outcome == price(input)
    IN  IF outcome.ok
        THEN [acc EXCEPT !.results = Append(@, outcome.value), !.successful = @ + 1]
        ELSE [acc EXCEPT !.failed = @ + 1]

\* the batch abandoned at its first failing row
RECURSIVE EvaluateFromAbort(_, _, _)
EvaluateFromAbort(rows, i, acc) ==
    IF i > Len(rows) THEN acc
    ELSE IF ~price(rows[i]).ok THEN [acc EXCEPT !.failed = Len(rows) - acc.successful]
    ELSE EvaluateFromAbort(rows, i + 1, [acc EXCEPT !.results = Append(@, price(rows[i]).value),
                                                    !.successful = @ + 1])

RECURSIVE EvaluateFrom(_, _, _)
EvaluateFrom(rows, i, acc) ==
    IF i > Len(rows) THEN acc
    ELSE EvaluateFrom(rows, i + 1, EvaluateRow(acc, rows[i]))

priceBatch(rows) ==
    EvaluateFrom(rows, 1, [results |-> <<>>, total |-> Len(rows), successful |-> 0, failed |-> 0])

(***************************************************************************)
(* BatchCalculator (both revisions; the second adds the rate input toggle) *)
(***************************************************************************)
MaxRows == 2

\* what the user types into the cells of the batch table
BatchTyped(name) ==
    IF mounted = "BatchCalculator"
    THEN CASE name = "t" -> {Text(TRUE, 1, 0)}
           [] name = "r" -> {BlankText}
           [] OTHER -> {}
    ELSE CASE name = "r" -> {BlankText, Text(TRUE, 1, 0)}
           [] OTHER -> {}

\* messages of the errors a rejected batch request carries
Failures == {"Failed to fetch"}

BatchMounted == mounted \in {"BatchCalculator", "BatchCalculatorRate"}

addRow ==
    /\ BatchMounted
    /\ Len(calculations) < MaxRows
    /\ calculations' = Append(calculations, InitialRow)
    /\ event' = ClickEvent("addRow", 0)
    /\ UNCHANGED <<results, isLoading, error, request, rateMode, notBatch>>

\* calculations.filter((_, i) => i !== index)
Without(rows, index) ==
    [i \in 1..(Len(rows) - 1) |-> IF i < index THEN rows[i] ELSE rows[i + 1]]

removeRow ==
    /\ BatchMounted
    /\ Len(calculations) # 1
    /\ \E index \in 1..Len(calculations) :
        /\ calculations' = Without(calculations, index)
        /\ event' = ClickEvent("removeRow", index)
    /\ UNCHANGED <<results, isLoading, error, request, rateMode, notBatch>>

\* the cells' onChange: parseFloat(e.target.value) || 0
CellValue(text) == IF Truthy(parseFloat(text)) THEN parseFloat(text) ELSE Num(0)

updateCalculation ==
    /\ BatchMounted
    /\ \E index \in 1..Len(calculations) : \E field \in Fields : \E text \in BatchTyped(field) :
        /\ calculations' = [calculations EXCEPT ![index] = [@ EXCEPT ![field] = CellValue(text)]]
        /\ event' = ChangeEvent(index, field, text)
    /\ UNCHANGED <<results, isLoading, error, request, rateMode, notBatch>>

\* calculations.map(...) of the first revision: "Convert percentages to decimals"
BatchPayload(rows) ==
    [i \in 1..Len(rows) |->
        [rows[i] EXCEPT !["r"] = Divide(@, Num(100)),
                        !["d"] = Divide(@, Num(100)),
                        !["v"] = Divide(@, Num(100))]]

\* calculations.map(...) of the second revision, through toDecimal
BatchPayloadRate(mode, rows) ==
    [i \in 1..Len(rows) |->
        [rows[i] EXCEPT !["r"] = toDecimal(mode, @),
                        !["d"] = toDecimal(mode, @),
                        !["v"] = toDecimal(mode, @)]]

\* handleSubmit up to the await; the submit button is disabled while loading
BatchHandleSubmit ==
    /\ mounted = "BatchCalculator"
    /\ ~isLoading /\ Len(calculations) # 0
    /\ isLoading' = TRUE
    /\ error' = NoError
    /\ results' = NoResults
    /\ request' = BatchPayload(calculations)
    /\ event' = ClickEvent("submit", 0)
    /\ UNCHANGED <<calculations, rateMode, notBatch>>

\* handleSubmit without setResults(null)
BatchHandleSubmitRateKeepingResults ==
    /\ mounted = "BatchCalculatorRate"
    /\ ~isLoading /\ Len(calculations) # 0
    /\ isLoading' = TRUE
    /\ error' = NoError
    /\ results' = results
    /\ request' = BatchPayloadRate(rateMode, calculations)
    /\ event' = ClickEvent("submit", 0)
    /\ UNCHANGED <<calculations, rateMode, notBatch>>

BatchHandleSubmitRate ==
    /\ mounted = "BatchCalculatorRate"
    /\ ~isLoading /\ Len(calculations) # 0
    /\ isLoading' = TRUE
    /\ error' = NoError
    /\ results' = NoResults
    /\ request' = BatchPayloadRate(rateMode, calculations)
    /\ event' = ClickEvent("submit", 0)
    /\ UNCHANGED <<calculations, rateMode, notBatch>>

\* the await resolves: setResults(response), then finally
BatchResolved ==
    /\ BatchMounted
    /\ isLoading /\ request # NoRequest
    /\ results' = priceBatch(request)
    /\ isLoading' = FALSE
    /\ request' = NoRequest
    /\ event' = ClickEvent("resolved", 0)
    /\ UNCHANGED <<calculations, error, rateMode, notBatch>>

\* the await rejects: catch, then finally
BatchRejected ==
    /\ BatchMounted
    /\ isLoading /\ request # NoRequest
    /\ \E message \in Failures : error' = message
    /\ isLoading' = FALSE
    /\ request' = NoRequest
    /\ event' = ClickEvent("rejected", 0)
    /\ UNCHANGED <<calculations, results, rateMode, notBatch>>

BatchSetRateMode ==
    /\ mounted = "BatchCalculatorRate"
    /\ \E mode \in {"percent", "decimal"} :
        /\ rateMode' = mode
        /\ event' = ClickEvent(mode, 0)
    /\ UNCHANGED <<batchVars, notBatch>>

(***************************************************************************)
(* The engine applied to a batch of inputs                                 *)
(***************************************************************************)
MaxInputs == 3

\* a valid row, and rows that differ from it in one field
EngineRow(s0, t, v) ==
    [f \in Fields |->
        CASE f = "s0" -> s0
          [] f = "x"  -> Num(100)
          [] f = "t"  -> t
          [] f = "r"  -> Rat(5, 100)
          [] f = "d"  -> Rat(2, 100)
          [] f = "v"  -> v]

EngineRows ==
    {EngineRow(Num(100), Num(1), Rat(20, 100)),
     EngineRow(Num(110), Num(1), Rat(20, 100)),
     EngineRow(Num(-1), Num(1), Rat(20, 100)),
     EngineRow(Num(100), Num(-1), Rat(20, 100)),
     EngineRow(Num(100), Num(1), Num(0))}

RECURSIVE SeqsUpTo(_, _)
SeqsUpTo(S, n) ==
    IF n = 0 THEN {<<>>}
    ELSE LET shorter == SeqsUpTo(S, n - 1)
         IN  shorter \cup {Append(q, e) : q \in {p \in shorter : Len(p) = n - 1}, e \in S}

PriceBatch ==
    /\ mounted = "Engine"
    /\ batchResult = NoResults
    /\ batchResult' = priceBatch(inputs)
    /\ UNCHANGED <<inputs, evaluated, calls, notEngine>>

(***************************************************************************)
(* The rows of a batch evaluated in any order, one at a time or            *)
(* interleaved: each evaluation reads its own row and nothing else         *)
(***************************************************************************)
Pending == (1..Len(inputs)) \ {evaluated[k].index : k \in 1..Len(evaluated)}

\* one worker finishes one row that is still to be evaluated
EvaluateSomeRow ==
    /\ mounted = "EngineParallel"
    /\ \E i \in Pending :
        evaluated' = Append(evaluated, [index |-> i, outcome |-> price(inputs[i])])
    /\ UNCHANGED <<inputs, batchResult, calls, notEngine>>

\* the outcome recorded for row i
OutcomeOf(done, i) == (CHOOSE k \in 1..Len(done) : done[k].index = i)

\* the outcomes taken in the order the rows finished
RECURSIVE GatherAsFinished(_, _, _)
GatherAsFinished(done, i, acc) ==
    IF i > Len(done) THEN acc
    ELSE LET outcome == done[i].outcome
         IN  GatherAsFinished(done, i + 1,
                IF outcome.ok
                THEN [acc EXCEPT !.results = Append(@, outcome.value), !.successful = @ + 1]
                ELSE [acc EXCEPT !.failed = @ + 1])

\* the outcomes taken in the order of the inputs
RECURSIVE Gather(_, _, _)
Gather(done, i, acc) ==
    IF i > Len(done) THEN acc
    ELSE LET outcome == done[OutcomeOf(done, i)].outcome
         IN  Gather(done, i + 1,
                IF outcome.ok
                THEN [acc EXCEPT !.results = Append(@, outcome.value), !.successful = @ + 1]
                ELSE [acc EXCEPT !.failed = @ + 1])

\* every row is evaluated: the BatchResult is put together
GatherBatch ==
    /\ mounted = "EngineParallel"
    /\ Pending = {} /\ batchResult = NoResults
    /\ batchResult' = Gather(evaluated, 1,
            [results |-> <<>>, total |-> Len(inputs), successful |-> 0, failed |-> 0])
    /\ UNCHANGED <<inputs, evaluated, calls, notEngine>>

(***************************************************************************)
(* A caller of the engine: price and priceBatch calls in any order         *)
(***************************************************************************)
MaxCalls == 3

\* an engine that keeps the input of the call before and prices that one
AnswerStale(previous, input) ==
    IF previous # <<>> THEN price(previous[Len(previous)].input) ELSE price(input)

\* what price returns to a call made after the calls `previous`
Answer(previous, input) == price(input)

CallPrice ==
    /\ mounted = "EngineCalls"
    /\ Len(calls) < MaxCalls
    /\ \E input \in EngineRows :
        calls' = Append(calls, [input |-> input, output |-> Answer(calls, input)])
    /\ UNCHANGED <<inputs, batchResult, evaluated, notEngine>>

CallPriceBatch ==
    /\ mounted = "EngineCalls"
    /\ \E rows \in SeqsUpTo(EngineRows, 2) :
        /\ rows # inputs
        /\ inputs' = rows
        /\ batchResult' = priceBatch(rows)
    /\ UNCHANGED <<evaluated, calls, notEngine>>

(***************************************************************************)
(* services/api: fetch, then handleResponse                                *)
(***************************************************************************)
\* values of the detail property of a parsed body: not there, a string, or a
\* list of n objects (the validation errors sent with status 422)
Absent == [kind |-> "undefined", text |-> "", n |-> 0]
JsonString(text) == [kind |-> "string", text |-> text, n |-> 0]
JsonList(n) == [kind |-> "list", text |-> "", n |-> n]

\* String(value), as new Error(value) converts its argument
RECURSIVE Objects(_)
Objects(n) ==
    IF n = 0 THEN ""
    ELSE IF n = 1 THEN "[object Object]"
    ELSE "[object Object]," \o Objects(n - 1)

String(value) ==
    CASE value.kind = "string" -> value.text
      [] value.kind = "list" -> Objects(value.n)
      [] OTHER -> "undefined"

\* truthiness: undefined and '' are falsy, every array is truthy
TruthyValue(value) ==
    \/ value.kind = "string" /\ value.text # ""
    \/ value.kind = "list"

\* response bodies: text that is not JSON, JSON null, a JSON object
NotJson == [kind |-> "text", detail |-> Absent]
JsonNull == [kind |-> "null", detail |-> Absent]
JsonObject(detail) == [kind |-> "object", detail |-> detail]

Bodies ==
    {NotJson, JsonNull}
        \cup {JsonObject(detail) :
                detail \in {Absent, JsonString(""), JsonString("Invalid input"),
                            JsonList(1), JsonList(2)}}

Statuses == {200, 422, 500}

\* what fetch resolves with; statusText is empty over HTTP/2
Responses(call) ==
    {[call |-> call, fetched |-> TRUE, ok |-> status \in 200..299, status |-> status,
      statusText |-> statusText, body |-> body] :
        status \in Statuses, statusText \in {"", "Server Error"}, body \in Bodies}

\* fetch rejected: no response at all
NetworkFailure(call) ==
    [call |-> call, fetched |-> FALSE, ok |-> FALSE, status |-> 0,
     statusText |-> "", body |-> NotJson]

NoResponse == NetworkFailure("")

Void == [kind |-> "void", detail |-> Absent]

Unsettled == [state |-> "pending", name |-> "", message |-> "", data |-> Void]
Rejected(name, message) == [state |-> "rejected", name |-> name, message |-> message, data |-> Void]
Fulfilled(data) == [state |-> "fulfilled", name |-> "", message |-> "", data |-> data]

\* the message falls back to the status line whenever the body has a detail
ThrowNotOkStatusOnly(res) ==
    Rejected("Error", "HTTP error! status: " \o ToString(res.status))

\* the branch for !response.ok, the same in handleResponse and deleteHistoryEntries
ThrowNotOk(res) ==
    LET parsed == IF res.body.kind = "text"
                  THEN JsonObject(JsonString(res.statusText))
                  ELSE res.body
    IN  IF parsed.kind = "null"
        THEN Rejected("TypeError", "Cannot read properties of null (reading 'detail')")
        ELSE IF TruthyValue(parsed.detail)
        THEN Rejected("Error", String(parsed.detail))
        ELSE Rejected("Error", "HTTP error! status: " \o ToString(res.status))

handleResponse(res) ==
    IF ~res.ok THEN ThrowNotOk(res)
    ELSE IF res.body.kind = "text"
    THEN Rejected("SyntaxError", "Unexpected token")
    ELSE Fulfilled(res.body)

deleteHistoryEntries(res) ==
    IF ~res.ok THEN ThrowNotOk(res) ELSE Fulfilled(Void)

\* the calls that end in handleResponse
ThroughHandleResponse ==
    {"calculateBlackScholes", "getCalculationHistory", "getCalculationById",
     "batchCalculateBlackScholes"}

CallApi ==
    /\ mounted = "Api"
    /\ \E call \in ThroughHandleResponse :
        \/ \E res \in Responses(call) :
                /\ response' = res
                /\ promise' = handleResponse(res)
        \/ /\ response' = NetworkFailure(call)
           /\ promise' = Rejected("TypeError", "Failed to fetch")
    /\ UNCHANGED notApi

CallDeleteHistoryEntries ==
    /\ mounted = "Api"
    /\ \/ \E res \in Responses("deleteHistoryEntries") :
                /\ response' = res
                /\ promise' = deleteHistoryEntries(res)
       \/ /\ response' = NetworkFailure("deleteHistoryEntries")
          /\ promise' = Rejected("TypeError", "Failed to fetch")
    /\ UNCHANGED notApi

(***************************************************************************)
(* HistoryView: the first revision (components/HistoryView.tsx) and the    *)
(* paginated revision with row selection and deletion                      *)
(***************************************************************************)
MaxLoads == 2
MaxDeletes == 1

NoToast == ""
UndefinedNumber == [k |-> "undefined", n |-> 0, d |-> 1]

\* ids of the rows the backend holds when the view is opened
StoredAtFirst == {<<>>, <<1>>}

Min(a, b) == IF a < b THEN a ELSE b

\* the rows the backend answers a history request with
PageOf(rows, skip, limit) == SubSeq(rows, skip + 1, Min(skip + limit, Len(rows)))

Ids(rows) == {rows[i] : i \in 1..Len(rows)}

\* the rows the backend keeps
RECURSIVE Filter(_, _)
Filter(rows, keep) ==
    IF rows = <<>> THEN <<>>
    ELSE (IF Head(rows) \in keep THEN <<Head(rows)>> ELSE <<>>) \o Filter(Tail(rows), keep)

\* what the first revision renders: one early return after the other
Views ==
    IF loading THEN {"loading"}
    ELSE IF error # NoError THEN {"error"}
    ELSE IF Len(history) = 0 THEN {"empty"}
    ELSE {"table"}

\* what the paginated revision renders: four independent conditions
ViewsPaged ==
    {view \in {"loading", "error", "empty", "table"} :
        CASE view = "loading" -> loading /\ Len(history) = 0
          [] view = "error" -> error # NoError
          [] view = "empty" -> ~loading /\ error = NoError /\ Len(history) = 0
          [] view = "table" -> Len(history) > 0}

\* a loadHistory call at its first await
\* (failedBefore: the load that settled last before this one was called had failed;
\* newerFailed: a load called after this one has failed since;
\* replaced: its setHistory(data) has changed the rows displayed)
Load(skip, limit, after) ==
    [step |-> "rows", skip |-> skip, limit |-> limit, after |-> after,
     failedBefore |-> FALSE, newerFailed |-> FALSE, replaced |-> FALSE]

\* the loads still awaited once load k has failed
Failed(k) ==
    Without([j \in 1..Len(loads) |-> IF j < k THEN [loads[j] EXCEPT !.newerFailed = TRUE]
                                     ELSE loads[j]], k)

\* loadHistory up to its first await
Begin(load) ==
    /\ loading' = TRUE
    /\ error' = NoError
    /\ loads' = Append(loads, [load EXCEPT !.failedBefore = (settledLast = "failed")])

\* the Retry button of the error panel, the Refresh button of the table
loadHistory ==
    /\ mounted = "HistoryView"
    /\ Len(loads) < MaxLoads
    /\ \/ "error" \in Views /\ event' = ClickEvent("retry", 0)
       \/ "table" \in Views /\ event' = ClickEvent("refresh", 0)
    /\ Begin(Load(0, Len(stored), ""))
    /\ UNCHANGED <<stored, history, settledLast, selectedRows, toastMessage, toastType,
                   currentPage, itemsPerPage, totalCount, deletes, output, notHistory>>

\* getCalculationHistory resolves: setHistory(data), then finally
HistoryResolved ==
    /\ mounted = "HistoryView"
    /\ \E k \in 1..Len(loads) :
        /\ history' = stored
        /\ loading' = FALSE
        /\ loads' = Without(loads, k)
        /\ settledLast' = "ok"
        /\ event' = ClickEvent("rowsResolved", k)
    /\ UNCHANGED <<stored, error, selectedRows, toastMessage, toastType,
                   currentPage, itemsPerPage, totalCount, deletes, output, notHistory>>

\* the catch without the finally: loading stays set
HistoryRejectedNoFinally ==
    /\ mounted = "HistoryView"
    /\ \E k \in 1..Len(loads) : \E message \in Failures :
        /\ error' = message
        /\ loading' = loading
        /\ loads' = Failed(k)
        /\ settledLast' = "failed"
        /\ event' = ClickEvent("rowsRejected", k)
    /\ UNCHANGED <<stored, history, selectedRows, toastMessage, toastType,
                   currentPage, itemsPerPage, totalCount, deletes, output, notHistory>>

\* getCalculationHistory rejects: catch, then finally
HistoryRejected ==
    /\ mounted = "HistoryView"
    /\ \E k \in 1..Len(loads) : \E message \in Failures :
        /\ error' = message
        /\ loading' = FALSE
        /\ loads' = Failed(k)
        /\ settledLast' = "failed"
        /\ event' = ClickEvent("rowsRejected", k)
    /\ UNCHANGED <<stored, history, selectedRows, toastMessage, toastType,
                   currentPage, itemsPerPage, totalCount, deletes, output, notHistory>>

\* the paginated loadHistory: skip and limit are those of the render it was made in
loadHistoryPaged ==
    /\ mounted = "HistoryViewPaged"
    /\ Len(loads) < MaxLoads
    /\ \/ "error" \in ViewsPaged /\ event' = ClickEvent("retry", 0)
       \/ "table" \in ViewsPaged /\ event' = ClickEvent("refresh", 0)
    /\ Begin(Load((currentPage - 1) * itemsPerPage, itemsPerPage, ""))
    /\ UNCHANGED <<stored, history, settledLast, selectedRows, toastMessage, toastType,
                   currentPage, itemsPerPage, totalCount, deletes, output, notHistory>>

\* what runs when loadHistory returns to handleDeleteSelected: setSelectedRows(new Set())
Returned(load) == IF load.after = "clearSelection" THEN {} ELSE selectedRows

\* getCalculationHistory resolves: setHistory(data), then getHistoryCount is awaited
RowsResolved ==
    /\ mounted = "HistoryViewPaged"
    /\ \E k \in 1..Len(loads) :
        /\ loads[k].step = "rows"
        /\ history' = PageOf(stored, loads[k].skip, loads[k].limit)
        /\ loads' = [loads EXCEPT ![k].step = "count", ![k].replaced = (history' # history)]
        /\ event' = ClickEvent("rowsResolved", k)
    /\ UNCHANGED <<stored, loading, error, settledLast, selectedRows, toastMessage, toastType,
                   currentPage, itemsPerPage, totalCount, deletes, output, notHistory>>

\* getCalculationHistory rejects: catch, then finally
RowsRejected ==
    /\ mounted = "HistoryViewPaged"
    /\ \E k \in 1..Len(loads) : \E message \in Failures :
        /\ loads[k].step = "rows"
        /\ error' = message
        /\ loading' = FALSE
        /\ selectedRows' = Returned(loads[k])
        /\ loads' = Failed(k)
        /\ settledLast' = "failed"
        /\ event' = ClickEvent("rowsRejected", k)
    /\ UNCHANGED <<stored, history, toastMessage, toastType,
                   currentPage, itemsPerPage, totalCount, deletes, output, notHistory>>

\* getHistoryCount: the response is OK and its body is {total}
CountResolved ==
    /\ mounted = "HistoryViewPaged"
    /\ \E k \in 1..Len(loads) :
        /\ loads[k].step = "count"
        /\ totalCount' = Num(Len(stored))
        /\ loading' = FALSE
        /\ selectedRows' = Returned(loads[k])
        /\ loads' = Without(loads, k)
        /\ settledLast' = "ok"
        /\ event' = ClickEvent("countResolved", k)
    /\ UNCHANGED <<stored, history, error, toastMessage, toastType,
                   currentPage, itemsPerPage, deletes, output, notHistory>>

\* getHistoryCount: the response is not OK and its body is JSON, {detail}; response.ok
\* is not looked at, count.total is undefined
CountNotOk ==
    /\ mounted = "HistoryViewPaged"
    /\ \E k \in 1..Len(loads) :
        /\ loads[k].step = "count"
        /\ totalCount' = UndefinedNumber
        /\ loading' = FALSE
        /\ selectedRows' = Returned(loads[k])
        /\ loads' = Failed(k)
        /\ settledLast' = "failed"
        /\ event' = ClickEvent("countNotOk", k)
    /\ UNCHANGED <<stored, history, error, toastMessage, toastType,
                   currentPage, itemsPerPage, deletes, output, notHistory>>

\* getHistoryCount rejects (fetch fails, or the body is not JSON): catch, then finally
CountRejected ==
    /\ mounted = "HistoryViewPaged"
    /\ \E k \in 1..Len(loads) : \E message \in Failures :
        /\ loads[k].step = "count"
        /\ error' = message
        /\ loading' = FALSE
        /\ selectedRows' = Returned(loads[k])
        /\ loads' = Failed(k)
        /\ settledLast' = "failed"
        /\ event' = ClickEvent("countRejected", k)
    /\ UNCHANGED <<stored, history, toastMessage, toastType,
                   currentPage, itemsPerPage, totalCount, deletes, output, notHistory>>

\* Math.ceil(totalCount / itemsPerPage): NaN when totalCount is undefined
totalPages ==
    IF totalCount.k = "num"
    THEN Num((totalCount.n + itemsPerPage - 1) \div itemsPerPage)
    ELSE NaN

\* the options of the page-size select that are tried
PageSizes == {10, 100}

\* the two effects on [currentPage, itemsPerPage]: loadHistory(), setSelectedRows(new Set())
PageEffects ==
    /\ Len(loads) < MaxLoads
    /\ Begin(Load((currentPage' - 1) * itemsPerPage', itemsPerPage', ""))
    /\ selectedRows' = {}

\* the Next button: rendered when totalPages > 1, disabled on the last page
NextPage ==
    /\ mounted = "HistoryViewPaged"
    /\ "table" \in ViewsPaged
    /\ GreaterThan(totalPages, Num(1))
    /\ Num(currentPage) # totalPages
    /\ currentPage' = Min(totalPages.n, currentPage + 1)
    /\ itemsPerPage' = itemsPerPage
    /\ PageEffects
    /\ event' = ClickEvent("next", 0)
    /\ UNCHANGED <<stored, history, settledLast, toastMessage, toastType,
                   totalCount, deletes, output, notHistory>>

\* the Previous button: rendered when totalPages > 1, disabled on page 1
PreviousPage ==
    /\ mounted = "HistoryViewPaged"
    /\ "table" \in ViewsPaged
    /\ GreaterThan(totalPages, Num(1))
    /\ currentPage # 1
    /\ currentPage' = IF currentPage - 1 < 1 THEN 1 ELSE currentPage - 1
    /\ itemsPerPage' = itemsPerPage
    /\ PageEffects
    /\ event' = ClickEvent("previous", 0)
    /\ UNCHANGED <<stored, history, settledLast, toastMessage, toastType,
                   totalCount, deletes, output, notHistory>>

\* the page-size select: setItemsPerPage(value); setCurrentPage(1)
SetItemsPerPage ==
    /\ mounted = "HistoryViewPaged"
    /\ "table" \in ViewsPaged
    /\ \E size \in PageSizes \ {itemsPerPage} :
        /\ itemsPerPage' = size
        /\ event' = ClickEvent("pageSize", size)
    /\ currentPage' = 1
    /\ PageEffects
    /\ UNCHANGED <<stored, history, settledLast, toastMessage, toastType,
                   totalCount, deletes, output, notHistory>>

\* the rows whose checkbox is tried
Ticked == {1, 11}

toggleRowSelection ==
    /\ mounted = "HistoryViewPaged"
    /\ \E id \in Ids(history) \cap Ticked :
        /\ selectedRows' = IF id \in selectedRows THEN selectedRows \ {id}
                           ELSE selectedRows \cup {id}
        /\ event' = ClickEvent("toggleRow", id)
    /\ UNCHANGED <<stored, history, loading, error, loads, settledLast, toastMessage, toastType,
                   currentPage, itemsPerPage, totalCount, deletes, output, notHistory>>

allSelected == Len(history) > 0 /\ Cardinality(selectedRows) = Len(history)

\* the button that is Select All or Deselect All
SelectAllButton ==
    /\ mounted = "HistoryViewPaged"
    /\ "table" \in ViewsPaged
    /\ selectedRows' = IF allSelected THEN {} ELSE Ids(history)
    /\ event' = ClickEvent("selectAll", 0)
    /\ UNCHANGED <<stored, history, loading, error, loads, settledLast, toastMessage, toastType,
                   currentPage, itemsPerPage, totalCount, deletes, output, notHistory>>

\* handleDeleteSelected up to its first await
handleDeleteSelected ==
    /\ mounted = "HistoryViewPaged"
    /\ "table" \in ViewsPaged
    /\ event' = ClickEvent("deleteSelected", 0)
    /\ IF Cardinality(selectedRows) = 0
       THEN /\ toastType' = "error"
            /\ toastMessage' = "Please select at least one row to delete."
            /\ deletes' = deletes
       ELSE /\ Len(deletes) < MaxDeletes
            /\ deletes' = Append(deletes, [ids |-> selectedRows,
                                           skip |-> (currentPage - 1) * itemsPerPage,
                                           limit |-> itemsPerPage])
            /\ UNCHANGED <<toastMessage, toastType>>
    /\ UNCHANGED <<stored, history, loading, error, loads, settledLast, selectedRows,
                   currentPage, itemsPerPage, totalCount, output, notHistory>>

\* getSelectedCalculations: history.filter(calc => selectedRows.has(calc.id))
getSelectedCalculations == Filter(history, selectedRows)

Formats == {"csv", "sql", "json"}

\* the line, tuple or object a format writes for one calculation
EntryOf(format, id) == format \o " row " \o ToString(id)

\* generate over the whole page, whatever is selected
generateWholePage(format, selected) ==
    (CASE format = "csv" -> <<"Date,S0,X,t (years),r (%),d (%),v (%),Call Price,Put Price">>
       [] format = "sql" -> <<"INSERT INTO calculations VALUES">>
       [] OTHER -> <<>>)
    \o [i \in 1..Len(history) |-> EntryOf(format, history[i])]

\* generateCSV, generateSQL, generateJSON: a heading where the format has one,
\* then one entry for each calculation, in the order given
generate(format, selected) ==
    (CASE format = "csv" -> <<"Date,S0,X,t (years),r (%),d (%),v (%),Call Price,Put Price">>
       [] format = "sql" -> <<"INSERT INTO calculations VALUES">>
       [] OTHER -> <<>>)
    \o [i \in 1..Len(selected) |-> EntryOf(format, selected[i])]

NoOutput == [to |-> "", format |-> "", content |-> <<>>]
FormatEvent(type, format) == [ClickEvent(type, 0) EXCEPT !.name = format]

\* handleCopy; navigator.clipboard.writeText resolves or rejects
handleCopy ==
    /\ mounted = "HistoryViewPaged"
    /\ "table" \in ViewsPaged
    /\ \E format \in Formats :
        /\ event' = FormatEvent("copy", format)
        /\ LET selected == getSelectedCalculations
           IN  IF Len(selected) = 0
               THEN /\ toastType' = "error"
                    /\ toastMessage' = "Please select at least one row to copy."
                    /\ output' = output
               ELSE \/ /\ output' = [to |-> "clipboard", format |-> format,
                                     content |-> generate(format, selected)]
                       /\ toastType' = "success"
                       /\ toastMessage' = format \o " copied to clipboard!"
                    \/ /\ output' = output
                       /\ toastType' = "error"
                       /\ toastMessage' = "Failed to copy to clipboard"
    /\ UNCHANGED <<stored, history, loading, error, loads, settledLast, selectedRows,
                   currentPage, itemsPerPage, totalCount, deletes, notHistory>>

\* handleExport, downloadFile
handleExport ==
    /\ mounted = "HistoryViewPaged"
    /\ "table" \in ViewsPaged
    /\ \E format \in Formats :
        /\ event' = FormatEvent("export", format)
        /\ LET selected == getSelectedCalculations
           IN  IF Len(selected) = 0
               THEN /\ toastType' = "error"
                    /\ toastMessage' = "Please select at least one row to export."
                    /\ output' = output
               ELSE /\ output' = [to |-> "file", format |-> format,
                                  content |-> generate(format, selected)]
                    /\ UNCHANGED <<toastMessage, toastType>>
    /\ UNCHANGED <<stored, history, loading, error, loads, settledLast, selectedRows,
                   currentPage, itemsPerPage, totalCount, deletes, notHistory>>

\* deleteHistoryEntries resolves: the toast, then loadHistory is awaited
DeleteResolved ==
    /\ mounted = "HistoryViewPaged"
    /\ Len(loads) < MaxLoads
    /\ \E k \in 1..Len(deletes) :
        /\ stored' = Filter(stored, Ids(stored) \ deletes[k].ids)
        /\ toastType' = "success"
        /\ toastMessage' = "Deleted " \o ToString(Cardinality(deletes[k].ids))
                            \o (IF Cardinality(deletes[k].ids) = 1 THEN " entry" ELSE " entries")
                            \o " from history."
        /\ Begin(Load(deletes[k].skip, deletes[k].limit, "clearSelection"))
        /\ deletes' = Without(deletes, k)
        /\ event' = ClickEvent("deleteResolved", k)
    /\ UNCHANGED <<history, settledLast, selectedRows,
                   currentPage, itemsPerPage, totalCount, output, notHistory>>

\* deleteHistoryEntries rejects: the error toast
DeleteRejected ==
    /\ mounted = "HistoryViewPaged"
    /\ \E k \in 1..Len(deletes) : \E message \in Failures :
        /\ toastType' = "error"
        /\ toastMessage' = message
        /\ deletes' = Without(deletes, k)
        /\ event' = ClickEvent("deleteRejected", k)
    /\ UNCHANGED <<stored, history, loading, error, loads, settledLast, selectedRows,
                   currentPage, itemsPerPage, totalCount, output, notHistory>>

\* the timer of showToast: setToastMessage(null)
ToastTimeout ==
    /\ mounted = "HistoryViewPaged"
    /\ toastMessage # NoToast
    /\ toastMessage' = NoToast
    /\ event' = ClickEvent("toastTimeout", 0)
    /\ UNCHANGED <<stored, history, loading, error, loads, settledLast, selectedRows, toastType,
                   currentPage, itemsPerPage, totalCount, deletes, output, notHistory>>

(***************************************************************************)
(* App: handleCalculate, given to CalculatorForm as onSubmit together with *)
(* isLoading                                                               *)
(***************************************************************************)
MaxInFlight == 2

NoResult == [input |-> NoCall]

\* the CalculationResult the backend answers a calculation with
ResultFor(input) == [input |-> input]

\* what the user types into the form rendered by App
AppTyped(name) ==
    CASE name = "s0" -> {BlankText, Text(FALSE, 100, 0)}
      [] name = "d"  -> {Text(FALSE, 2, 0)}
      [] name = "v"  -> {Text(FALSE, 0, 50)}
      [] OTHER -> {}

\* CalculatorForm is rendered in the calculator tab only: its state starts anew
\* each time the tab is entered
Remount(tab) ==
    IF tab = activeTab
    THEN UNCHANGED <<formData, errors>>
    ELSE formData' = InitialFormData /\ errors' = NoErrors

\* handleChange of the form rendered by App
ChangeInApp ==
    /\ mounted = "App"
    /\ activeTab = "calculator"
    /\ \E name \in Fields : \E text \in AppTyped(name) :
        /\ handleChange(name, text)
        /\ event' = ChangeEvent(0, name, text)
    /\ onSubmitArg' = NoCall
    /\ UNCHANGED <<isLoading, error, appVars, notApp>>

\* handleCalculate up to its await
handleCalculate(input) ==
    /\ Len(calculating) < MaxInFlight
    /\ isLoading' = TRUE
    /\ error' = NoError
    /\ calculating' = Append(calculating, input)

\* a submit button that stays enabled while loading
SubmitFormWhileLoading ==
    /\ mounted = "App"
    /\ activeTab = "calculator"
    /\ event' = ClickEvent("submit", 0)
    /\ LET newErrors == CollectErrors(formData, 1, NoErrors)
           hasErrors == DOMAIN newErrors # {}
       IN  IF hasErrors
           THEN /\ errors' = newErrors
                /\ onSubmitArg' = NoCall
                /\ UNCHANGED <<isLoading, error, calculating>>
           ELSE /\ onSubmitArg' = Payload(formData)
                /\ errors' = errors
                /\ handleCalculate(Payload(formData))
    /\ UNCHANGED <<formData, currentResult, activeTab, notApp>>

\* the form's submit button (disabled={isLoading}): handleSubmit with
\* handleCalculate as onSubmit
SubmitForm ==
    /\ mounted = "App"
    /\ activeTab = "calculator"
    /\ ~isLoading
    /\ event' = ClickEvent("submit", 0)
    /\ LET newErrors == CollectErrors(formData, 1, NoErrors)
           hasErrors == DOMAIN newErrors # {}
       IN  IF hasErrors
           THEN /\ errors' = newErrors
                /\ onSubmitArg' = NoCall
                /\ UNCHANGED <<isLoading, error, calculating>>
           ELSE /\ onSubmitArg' = Payload(formData)
                /\ errors' = errors
                /\ handleCalculate(Payload(formData))
    /\ UNCHANGED <<formData, currentResult, activeTab, notApp>>

\* calculateBlackScholes resolves: setCurrentResult, setActiveTab, then finally
CalculateResolved ==
    /\ mounted = "App"
    /\ \E k \in 1..Len(calculating) :
        /\ currentResult' = ResultFor(calculating[k])
        /\ calculating' = Without(calculating, k)
        /\ event' = ClickEvent("resolved", k)
    /\ activeTab' = "calculator"
    /\ Remount("calculator")
    /\ isLoading' = FALSE
    /\ UNCHANGED <<error, onSubmitArg, notApp>>

\* calculateBlackScholes rejects: catch, then finally
CalculateRejected ==
    /\ mounted = "App"
    /\ \E k \in 1..Len(calculating) : \E message \in Failures :
        /\ error' = message
        /\ calculating' = Without(calculating, k)
        /\ event' = ClickEvent("rejected", k)
    /\ currentResult' = NoResult
    /\ isLoading' = FALSE
    /\ UNCHANGED <<activeTab, formVars, notApp>>

\* what the batch calculator hands to onBatchResults: no result, or one
BatchResponses ==
    {[results |-> <<>>],
     [results |-> <<ResultFor(Payload(InitialFormData))>>]}

\* handleBatchResults, the onBatchResults given to the form
handleBatchResults ==
    /\ mounted = "App"
    /\ \E batch \in BatchResponses :
        /\ currentResult' = IF Len(batch.results) > 0 THEN batch.results[1]
                            ELSE currentResult
        /\ event' = ClickEvent("batchResults", Len(batch.results))
    /\ UNCHANGED <<activeTab, calculating, isLoading, error, formVars, notApp>>

\* the two tab buttons
SetActiveTab ==
    /\ mounted = "App"
    /\ \E tab \in {"calculator", "history"} :
        /\ activeTab' = tab
        /\ Remount(tab)
        /\ event' = ClickEvent(tab, 0)
    /\ UNCHANGED <<currentResult, calculating, isLoading, error, onSubmitArg, notApp>>

(***************************************************************************)
(* Specifications                                                          *)
(***************************************************************************)
FormIdle ==
    /\ formData = InitialFormData
    /\ errors = NoErrors
    /\ onSubmitArg = NoCall

BatchIdle ==
    /\ calculations = <<InitialRow>>
    /\ results = NoResults
    /\ isLoading = FALSE
    /\ error = NoError
    /\ request = NoRequest

ApiIdle ==
    /\ response = NoResponse
    /\ promise = Unsettled

\* HistoryView not rendered
HistoryIdle ==
    /\ stored = <<>>
    /\ history = <<>>
    /\ loading = TRUE
    /\ loads = <<>>
    /\ settledLast = "none"
    /\ selectedRows = {}
    /\ toastMessage = NoToast
    /\ toastType = "success"
    /\ currentPage = 1
    /\ itemsPerPage = 10
    /\ totalCount = Num(0)
    /\ deletes = <<>>
    /\ output = NoOutput

\* App not rendered
AppIdle ==
    /\ currentResult = NoResult
    /\ activeTab = "calculator"
    /\ calculating = <<>>

OthersIdle == ApiIdle /\ HistoryIdle /\ AppIdle

EngineIdle ==
    /\ inputs = <<>>
    /\ batchResult = NoResults
    /\ evaluated = <<>>
    /\ calls = <<>>

InitForm ==
    /\ mounted = "CalculatorForm"
    /\ event = NoEvent
    /\ rateMode = "percent"
    /\ OthersIdle /\ FormIdle /\ BatchIdle /\ EngineIdle

InitFormRate ==
    /\ mounted = "CalculatorFormRate"
    /\ event = NoEvent
    /\ rateMode = "percent"
    /\ OthersIdle /\ FormIdle /\ BatchIdle /\ EngineIdle

InitBatch ==
    /\ mounted = "BatchCalculator"
    /\ event = NoEvent
    /\ rateMode = "percent"
    /\ OthersIdle /\ FormIdle /\ BatchIdle /\ EngineIdle

InitBatchRate ==
    /\ mounted = "BatchCalculatorRate"
    /\ event = NoEvent
    /\ rateMode = "percent"
    /\ OthersIdle /\ FormIdle /\ BatchIdle /\ EngineIdle

InitEngine ==
    /\ mounted = "Engine"
    /\ event = NoEvent
    /\ rateMode = "percent"
    /\ OthersIdle /\ FormIdle /\ BatchIdle
    /\ inputs \in SeqsUpTo(EngineRows, MaxInputs)
    /\ batchResult = NoResults
    /\ evaluated = <<>>
    /\ calls = <<>>

InitEngineParallel ==
    /\ mounted = "EngineParallel"
    /\ event = NoEvent
    /\ rateMode = "percent"
    /\ OthersIdle /\ FormIdle /\ BatchIdle
    /\ inputs \in SeqsUpTo(EngineRows, MaxInputs)
    /\ batchResult = NoResults
    /\ evaluated = <<>>
    /\ calls = <<>>

InitEngineCalls ==
    /\ mounted = "EngineCalls"
    /\ event = NoEvent
    /\ rateMode = "percent"
    /\ OthersIdle /\ FormIdle /\ BatchIdle /\ EngineIdle

InitApi ==
    /\ mounted = "Api"
    /\ event = NoEvent
    /\ rateMode = "percent"
    /\ OthersIdle /\ FormIdle /\ BatchIdle /\ EngineIdle

\* the view as first rendered, its effect having called loadHistory
HistoryMounted(load) ==
    /\ event = NoEvent
    /\ rateMode = "percent"
    /\ ApiIdle /\ AppIdle /\ FormIdle /\ EngineIdle
    /\ calculations = <<InitialRow>> /\ results = NoResults /\ isLoading = FALSE
    /\ request = NoRequest
    /\ history = <<>>
    /\ loading = TRUE
    /\ error = NoError
    /\ loads = <<load>>
    /\ settledLast = "none"
    /\ selectedRows = {}
    /\ toastMessage = NoToast
    /\ toastType = "success"
    /\ currentPage = 1
    /\ itemsPerPage = 10
    /\ totalCount = Num(0)
    /\ deletes = <<>>
    /\ output = NoOutput

InitHistory ==
    /\ mounted = "HistoryView"
    /\ \E rows \in StoredAtFirst : HistoryMounted(Load(0, Len(rows), "")) /\ stored = rows

InitHistoryPaged ==
    /\ mounted = "HistoryViewPaged"
    /\ stored \in StoredAtFirst
    /\ HistoryMounted(Load(0, 10, ""))

\* the paginated view opened on eleven stored rows: two pages of ten
InitHistoryPages ==
    /\ mounted = "HistoryViewPaged"
    /\ stored = [i \in 1..11 |-> i]
    /\ HistoryMounted(Load(0, 10, ""))

\* the paginated view opened on two stored rows
InitHistoryOutput ==
    /\ mounted = "HistoryViewPaged"
    /\ stored = <<1, 2>>
    /\ HistoryMounted(Load(0, 10, ""))

NextHistory == loadHistory \/ HistoryResolved \/ HistoryRejected
NextHistoryPaged ==
    \/ loadHistoryPaged
    \/ RowsResolved \/ RowsRejected \/ CountResolved \/ CountNotOk \/ CountRejected
    \/ toggleRowSelection \/ SelectAllButton
    \/ handleDeleteSelected \/ DeleteResolved \/ DeleteRejected \/ ToastTimeout
NextHistoryPages ==
    \/ loadHistoryPaged
    \/ RowsResolved \/ CountResolved
    \/ NextPage \/ PreviousPage \/ SetItemsPerPage
    \/ toggleRowSelection
    \/ handleDeleteSelected \/ DeleteResolved
NextHistoryOutput ==
    \/ RowsResolved \/ CountResolved
    \/ toggleRowSelection \/ SelectAllButton
    \/ handleDeleteSelected \/ DeleteResolved
    \/ handleCopy \/ handleExport \/ ToastTimeout

InitApp ==
    /\ mounted = "App"
    /\ event = NoEvent
    /\ rateMode = "percent"
    /\ OthersIdle /\ FormIdle /\ BatchIdle /\ EngineIdle

NextApp ==
    \/ ChangeInApp \/ SubmitForm \/ CalculateResolved \/ CalculateRejected
    \/ handleBatchResults \/ SetActiveTab

NextForm == HandleChange \/ HandleSubmit
NextFormRate == HandleChangeRate \/ HandleSubmitRate \/ SetRateMode
NextBatch ==
    \/ addRow \/ removeRow \/ updateCalculation
    \/ BatchHandleSubmit \/ BatchResolved \/ BatchRejected
NextBatchRate ==
    \/ addRow \/ removeRow \/ updateCalculation
    \/ BatchHandleSubmitRate \/ BatchResolved \/ BatchRejected \/ BatchSetRateMode

\* the first revision of the form
SpecForm == InitForm /\ [][NextForm]_vars
\* both revisions of the form
SpecForms == (InitForm \/ InitFormRate) /\ [][NextForm \/ NextFormRate]_vars
\* both revisions of the batch calculator
SpecBatches == (InitBatch \/ InitBatchRate) /\ [][NextBatch \/ NextBatchRate]_vars
\* the first revisions of the two components that submit calculations
Spec == (InitForm \/ InitBatch) /\ [][NextForm \/ NextBatch]_vars
\* the second revisions of the two components, with the rate input mode
SpecRate == (InitFormRate \/ InitBatchRate) /\ [][NextFormRate \/ NextBatchRate]_vars
\* the paginated HistoryView
SpecHistoryPaged == InitHistoryPaged /\ [][NextHistoryPaged]_vars
\* the paginated HistoryView with its page controls
SpecHistoryPages == InitHistoryPages /\ [][NextHistoryPages]_vars
\* the paginated HistoryView with its Copy and Export menus
SpecHistoryOutput == InitHistoryOutput /\ [][NextHistoryOutput]_vars
\* both revisions of HistoryView
SpecHistories == (InitHistory \/ InitHistoryPaged) /\ [][NextHistory \/ NextHistoryPaged]_vars
\* App with the single calculation form
SpecApp == InitApp /\ [][NextApp]_vars
\* the API client
SpecApi == InitApi /\ [][CallApi \/ CallDeleteHistoryEntries]_vars
\* the pricing engine on its own
SpecEngine == InitEngine /\ [][PriceBatch]_vars
\* the pricing engine, its rows evaluated in any order
SpecEngineParallel == InitEngineParallel /\ [][EvaluateSomeRow \/ GatherBatch]_vars
\* the pricing engine called again and again
SpecEngineCalls == InitEngineCalls /\ [][CallPrice \/ CallPriceBatch]_vars

(***************************************************************************)
(* Properties                                                              *)
(***************************************************************************)
Submitted == event.type = "submit"

\* a number, and its sign
IsNumber(v) == v.k = "num"
Positive(v) == v.k = "num" /\ v.n > 0
AtMostZero(v) == v.k = "num" /\ v.n <= 0

\* C1: after handleSubmit, each of s0, x and t whose value is a number <= 0
\* carries the error "<field> must be greater than 0".
C1_NonPositiveRejected ==
    Submitted /\ mounted = "CalculatorForm" =>
        \A f \in {"s0", "x", "t"} :
            AtMostZero(formData[f]) =>
                f \in DOMAIN errors /\ errors[f] = f \o " must be greater than 0"

C1_Witness ==
    /\ Submitted /\ mounted = "CalculatorForm"
    /\ formData["s0"] = Num(-1) /\ formData["x"] = Num(0) /\ formData["t"] = Num(-1)
    /\ DOMAIN errors = {"s0", "x", "t"}
    /\ errors["s0"] = "s0 must be greater than 0"

\* C2: after handleSubmit in either revision of the form, a volatility that is a
\* number <= 0 carries the error "v must be greater than 0" and onSubmit was not
\* called.
C2_VolatilityStrictlyPositive ==
    Submitted /\ AtMostZero(formData["v"]) =>
        /\ "v" \in DOMAIN errors
        /\ errors["v"] = "v must be greater than 0"
        /\ onSubmitArg = NoCall

\* the fields validateField reports for the entered data
Offending(data) == {f \in Fields : validateField(f, data[f]) # Undefined}

\* C3: a handleSubmit step on data that fails validation calls onSubmit with
\* nothing, leaves formData as entered, and sets errors to a non-empty record
\* whose keys are offending fields, each with its message.
C3_RejectionOutcome ==
    [][(event'.type = "submit" /\ mounted = "CalculatorForm" /\ Offending(formData) # {}) =>
          /\ onSubmitArg' = NoCall
          /\ formData' = formData
          /\ DOMAIN errors' # {}
          /\ \A f \in DOMAIN errors' : f \in Offending(formData) /\ errors'[f] # ""]_vars

C3_Witness ==
    /\ Submitted /\ mounted = "CalculatorForm"
    /\ formData["s0"] = Num(-1)
    /\ "s0" \in DOMAIN errors
    /\ onSubmitArg = NoCall

\* C4: after handleSubmit the keys of errors are exactly the fields that violate
\* their own rule, each with the message of that rule.
C4_AllViolationsCollected ==
    Submitted /\ mounted = "CalculatorForm" =>
        /\ DOMAIN errors = Offending(formData)
        /\ \A f \in DOMAIN errors : errors[f] = validateField(f, formData[f])

C4_Witness ==
    /\ Submitted /\ mounted = "CalculatorForm"
    /\ DOMAIN errors = {"x", "r", "d"}

\* the range the form accepts for a rate: 0..100 as a percentage, >= 0 as a decimal
RateAccepted(mode, v) ==
    /\ v.k = "num"
    /\ v.n >= 0
    /\ mode = "percent" => v.n <= 100 * v.d

\* C5 as stated: after handleSubmit, data whose s0, x, t and v are positive
\* numbers has passed validation (onSubmit was called), whatever r and d are.
C5_NoRangeOnRates ==
    (Submitted /\ \A f \in {"s0", "x", "t", "v"} : Positive(formData[f])) =>
        onSubmitArg # NoCall

\* C5 amended: after handleSubmit, data whose s0, x and t are positive and whose
\* v is in the accepted range has passed validation exactly when r and d are
\* both in the accepted range (0..100 in percent entry, >= 0 in decimal entry).
C5_RatesConstrained ==
    (/\ Submitted
     /\ \A f \in {"s0", "x", "t"} : Positive(formData[f])
     /\ RateAccepted(rateMode, formData["v"])) =>
        (onSubmitArg # NoCall <=> \A f \in {"r", "d"} : RateAccepted(rateMode, formData[f]))

C5_Witness ==
    /\ Submitted /\ mounted = "CalculatorFormRate" /\ rateMode = "decimal"
    /\ \A f \in {"s0", "x", "t"} : Positive(formData[f])
    /\ formData["r"] = Num(-1) /\ formData["d"] = Num(2)
    /\ DOMAIN errors = {"r"}
    /\ onSubmitArg = NoCall

\* the entry the component holds for the cell the last change event was for
Held == IF event.index = 0 THEN formData[event.name]
        ELSE calculations[event.index][event.name]

\* C6: once a field has been emptied, the component holds no number for it, and
\* a form submitted with a field that holds no number reports that field and
\* calls onSubmit with nothing.
C6_NoDefaultSubstituted ==
    /\ (event.type = "change" /\ event.value.blank) => ~IsNumber(Held)
    /\ (Submitted /\ mounted \in {"CalculatorForm", "CalculatorFormRate"}) =>
            \A f \in Fields : ~IsNumber(formData[f]) => f \in DOMAIN errors /\ onSubmitArg = NoCall

\* C7: the payload handed to onSubmit, and each row of a batch request as it is
\* sent, carry r, d and v as the entered value divided by 100 and s0, x and t as
\* entered.
Converted(entered, sent) ==
    /\ \A f \in {"r", "d", "v"} :
            IsNumber(sent[f]) /\ IsNumber(entered[f])
            /\ sent[f].n * 100 * entered[f].d = entered[f].n * sent[f].d
    /\ \A f \in {"s0", "x", "t"} : sent[f] = entered[f]

C7_DecimalRatesSent ==
    /\ (mounted = "CalculatorForm" /\ onSubmitArg # NoCall) => Converted(formData, onSubmitArg)
    /\ (mounted = "BatchCalculator" /\ Submitted) =>
            /\ Len(request) = Len(calculations)
            /\ \A i \in 1..Len(calculations) : Converted(calculations[i], request[i])

C7_Witness ==
    /\ mounted = "BatchCalculator" /\ Submitted
    /\ Len(request) = 2
    /\ calculations[2]["r"] = Num(5) /\ request[2]["r"] = Rat(1, 20)
    /\ calculations[1]["t"] = Num(-1) /\ request[1]["t"] = Num(-1)

Priced == batchResult # NoResults

\* C8: the BatchResult of a batch has total = successful + failed,
\* successful = the length of results, and total = the number of inputs.
C8_CountsAddUp ==
    Priced =>
        /\ batchResult.total = batchResult.successful + batchResult.failed
        /\ batchResult.successful = Len(batchResult.results)
        /\ batchResult.total = Len(inputs)

C8_Witness ==
    /\ Priced
    /\ batchResult.total = 3 /\ batchResult.successful = 1 /\ batchResult.failed = 2

\* the results of the rows of a batch, each priced on its own, from row i on
RECURSIVE Alone(_, _)
Alone(rows, i) ==
    IF i > Len(rows) THEN <<>>
    ELSE (IF price(rows[i]).ok THEN <<price(rows[i]).value>> ELSE <<>>) \o Alone(rows, i + 1)

\* C9: failed counts the rows that fail validation, results holds for every
\* other row the result of pricing it alone, and three inputs of which only the
\* second is invalid give total 3, successful 2, failed 1 and the first and
\* third results.
C9_FailuresIsolated ==
    Priced =>
        /\ batchResult.failed = Cardinality({i \in 1..Len(inputs) : ~price(inputs[i]).ok})
        /\ batchResult.results = Alone(inputs, 1)
        /\ (/\ Len(inputs) = 3
            /\ price(inputs[1]).ok /\ ~price(inputs[2]).ok /\ price(inputs[3]).ok) =>
                /\ batchResult.total = 3 /\ batchResult.successful = 2 /\ batchResult.failed = 1
                /\ batchResult.results = <<price(inputs[1]).value, price(inputs[3]).value>>

C9_Witness ==
    /\ Priced
    /\ Len(inputs) = 3
    /\ inputs[1] = EngineRow(Num(100), Num(1), Rat(20, 100))
    /\ inputs[2] = EngineRow(Num(100), Num(-1), Rat(20, 100))
    /\ inputs[3] = EngineRow(Num(110), Num(1), Rat(20, 100))
    /\ Len(batchResult.results) = 2

\* the six inputs a result echoes
Echo(result) == [f \in Fields |-> result[f]]
InDomain(row) == \A f \in {"s0", "x", "t", "v"} : Positive(row[f])

\* C10: the inputs echoed by results, in order, are the inputs with s0, x, t
\* and v positive, in the order they were given.
C10_OrderPreserved ==
    Priced =>
        [i \in 1..Len(batchResult.results) |-> Echo(batchResult.results[i])]
            = SelectSeq(inputs, InDomain)

C10_Witness ==
    /\ Priced
    /\ Len(inputs) = 3
    /\ inputs[1]["s0"] = Num(110) /\ ~InDomain(inputs[2]) /\ inputs[3]["s0"] = Num(100)
    /\ Len(batchResult.results) = 2
    /\ batchResult.results[1].s0 = Num(110) /\ batchResult.results[2].s0 = Num(100)

\* C11: whatever the order in which the rows of a batch were evaluated, the
\* BatchResult put together from them is the one sequential evaluation gives:
\* same results, total, successful and failed.
C11_OrderIndependent ==
    (mounted = "EngineParallel" /\ batchResult # NoResults) => batchResult = priceBatch(inputs)

\* a batch with a failing row, finished last row first
C11_Witness ==
    /\ mounted = "EngineParallel" /\ batchResult # NoResults
    /\ Len(inputs) = MaxInputs
    /\ evaluated[1].index = Len(inputs)
    /\ batchResult.failed > 0 /\ batchResult.successful > 1
    /\ batchResult.results[1] # batchResult.results[2]

RowsValid(rows) ==
    \A i \in 1..Len(rows) : \A f \in Fields :
        IF mounted \in {"CalculatorForm", "BatchCalculator"}
        THEN validateField(f, rows[i][f]) = Undefined
        ELSE validateFieldRate(rateMode, f, rows[i][f]) = Undefined

\* C14: whenever a calculation is submitted, by the form (onSubmit called) or by
\* the batch table (request sent), every field of every submitted row passes the
\* validation rules.
C14_ValidatedBeforeRequest ==
    /\ (mounted \in {"CalculatorForm", "CalculatorFormRate"} /\ onSubmitArg # NoCall) =>
            RowsValid(<<formData>>)
    /\ (BatchMounted /\ Submitted) => RowsValid(calculations)

\* the value stands for a percentage below 0% or above 100%: entered as a
\* percentage it is the percentage itself, entered as a decimal 1 is 100%
OutsidePercentRange(mode, v) ==
    /\ IsNumber(v)
    /\ \/ LessThan(v, Num(0))
       \/ GreaterThan(v, IF mode = "percent" THEN Num(100) ELSE Num(1))

RangeMessage(f) ==
    IF mounted = "CalculatorForm" THEN f \o " should be between 0 and 100"
    ELSE IF rateMode = "percent"
    THEN f \o " should be between 0 and 100 when entered as a percentage"
    ELSE f \o " must be non-negative"

SentAs(mode, row) ==
    [f \in Fields |->
        IF f \in {"r", "d", "v"} /\ mode = "percent" THEN Divide(row[f], Num(100)) ELSE row[f]]

NotOk == mounted = "Api" /\ response.fetched /\ ~response.ok

\* C17: a call whose response is not OK is rejected with an Error and no data;
\* the message is the body's detail when the body is JSON with a detail, the
\* status text when the body is not JSON, and "HTTP error! status: <code>" when
\* the detail is empty.
C17_NotOkRejects ==
    NotOk =>
        /\ promise.state = "rejected" /\ promise.data = Void
        /\ (response.body.kind = "object" /\ response.body.detail.kind = "string"
                /\ response.body.detail.text # "") =>
                promise.message = response.body.detail.text
        /\ response.body.kind = "text" => promise.message = response.statusText
        /\ (response.body.kind = "object" /\ response.body.detail = JsonString("")) =>
                promise.message = "HTTP error! status: " \o ToString(response.status)

\* C17 amended: a call whose response is not OK is rejected with no data. The
\* message is the detail of a JSON object body converted to a string when it is
\* not empty (a textual detail itself, "[object Object]" for each entry of a
\* list); the status text when the body is not JSON and the status text is not
\* empty; "HTTP error! status: <code>" when the detail, or the status text of
\* a body that is not JSON, is empty or missing; a JSON body that is null
\* rejects with a TypeError instead.
C17_NotOkMessage ==
    NotOk =>
        /\ promise.state = "rejected" /\ promise.data = Void
        /\ IF response.body.kind = "null" THEN promise.name = "TypeError"
           ELSE /\ promise.name = "Error"
                /\ promise.message =
                     CASE response.body.kind = "text" /\ response.statusText # "" ->
                                response.statusText
                       [] response.body.kind = "object"
                            /\ response.body.detail.kind = "string"
                            /\ response.body.detail.text # "" ->
                                response.body.detail.text
                       [] response.body.kind = "object"
                            /\ response.body.detail.kind = "list" ->
                                Objects(response.body.detail.n)
                       [] OTHER -> "HTTP error! status: " \o ToString(response.status)

\* status 500 over HTTP/2 with a body that is not JSON
C17_Witness ==
    /\ NotOk /\ response.call = "deleteHistoryEntries"
    /\ response.status = 500 /\ response.statusText = "" /\ response.body = NotJson
    /\ promise.message = "HTTP error! status: 500"

\* C19: isLoading is true exactly while a calculate request is in flight: it is
\* set by the submit, it is false again once the request has settled, resolved
\* or rejected; and while it is true the submit control does nothing, so
\* there is never more than one calculate request in flight.
C19_LoadingTracksRequest ==
    mounted = "App" =>
        /\ isLoading <=> calculating # <<>>
        /\ Len(calculating) <= 1
        /\ isLoading => ~ENABLED SubmitForm
        /\ (event.type = "submit" /\ onSubmitArg # NoCall) => isLoading
        /\ event.type \in {"resolved", "rejected"} => ~isLoading

\* a calculation that failed while the history tab was shown: the flag is back to false
C19_Witness ==
    /\ mounted = "App" /\ event.type = "rejected"
    /\ ~isLoading /\ calculating = <<>>
    /\ error # NoError /\ activeTab = "history"

\* C18: a request that failed leaves a message for the user: a failed
\* calculation or batch or history load or history count sets error, a failed
\* delete sets an error toast.
C18_FailuresDisplayed ==
    /\ (mounted \in {"App", "BatchCalculator", "BatchCalculatorRate"} /\ event.type = "rejected")
            => error # NoError
    /\ (mounted \in {"HistoryView", "HistoryViewPaged"}
            /\ event.type \in {"rowsRejected", "countRejected", "countNotOk"})
            => error # NoError
    /\ (mounted = "HistoryViewPaged" /\ event.type = "deleteRejected")
            => (toastMessage # NoToast /\ toastType = "error")

\* the one view the load state calls for: loading while a load is in flight,
\* else the error panel after a failed load, else the empty message, else the table
ViewCalledFor ==
    IF loads # <<>> THEN "loading"
    ELSE IF settledLast = "failed" THEN "error"
    ELSE IF Len(history) = 0 THEN "empty"
    ELSE "table"

\* what is on the screen
Shown == IF mounted = "HistoryView" THEN Views ELSE ViewsPaged

\* C20 as stated: in every state of HistoryView, either revision, exactly the
\* one view called for by the load state is shown.
C20_ExactlyOneView ==
    mounted \in {"HistoryView", "HistoryViewPaged"} => Shown = {ViewCalledFor}

\* C20: the first revision shows exactly the one view called for by the load
\* state. The paginated revision always shows something, and what it shows is
\* the loading indicator, the error panel, the empty message or the table on
\* its own, or the error panel together with the table; the loading indicator
\* only while a load is in flight and no rows are held, the error panel only
\* once a load has settled, the table whenever rows are held, in flight or not.
C20_ViewsPerRevision ==
    /\ mounted = "HistoryView" => Views = {ViewCalledFor}
    /\ mounted = "HistoryViewPaged" =>
        /\ ViewsPaged \in {{"loading"}, {"error"}, {"empty"}, {"table"}, {"error", "table"}}
        /\ "loading" \in ViewsPaged => loads # <<>>
        /\ "error" \in ViewsPaged => settledLast # "none"
        /\ "empty" \in ViewsPaged => Len(history) = 0
        /\ Len(history) > 0 => "table" \in ViewsPaged

\* the paginated view after a reload that failed: error panel and table together
C20_Witness ==
    /\ mounted = "HistoryViewPaged"
    /\ event.type = "rowsRejected"
    /\ ViewsPaged = {"error", "table"}

\* a click on Retry or Refresh
Activated == event'.type \in {"retry", "refresh"}

\* a load called after a failed load settles with success, no load called
\* after it having failed in the meantime
RecoveredBy(type) ==
    /\ event'.type = type
    /\ loads[event'.index].failedBefore
    /\ ~loads[event'.index].newerFailed

RECURSIVE EntryIds(_, _)
EntryIds(format, content) ==
    IF content = <<>> THEN <<>>
    ELSE LET ids == {id \in Ids(stored) \cup Ids(history) : EntryOf(format, id) = Head(content)}
         IN  (IF ids = {} THEN <<>> ELSE <<CHOOSE id \in ids : TRUE>>)
             \o EntryIds(format, Tail(content))

\* C22: what Copy or Export emits holds one entry for each row of the displayed
\* page whose id is selected, and no other, in the order displayed; when no
\* displayed row is selected nothing is emitted and an error toast is shown.
C22_OutputIsSelection ==
    [][(mounted = "HistoryViewPaged" /\ event'.type \in {"copy", "export"}) =>
        IF Filter(history, selectedRows) = <<>>
        THEN /\ output' = output
             /\ toastType' = "error" /\ toastMessage' # NoToast
        ELSE \/ /\ output'.to = (IF event'.type = "copy" THEN "clipboard" ELSE "file")
                /\ output'.format = event'.name
                /\ EntryIds(event'.name, output'.content) = Filter(history, selectedRows)
             \/ /\ event'.type = "copy"
                /\ output' = output
                /\ toastType' = "error" /\ toastMessage' = "Failed to copy to clipboard"]_vars

\* two rows displayed, the first one selected and exported
C22_Witness ==
    /\ mounted = "HistoryViewPaged"
    /\ event.type = "export"
    /\ history = <<1, 2>> /\ selectedRows = {1}
    /\ output.to = "file"
    /\ output.content = generate(event.name, <<1>>)

\* C23: in the paginated view with no load in flight and no error, the rows
\* displayed are the backend's rows of the current page at the current page
\* size: an older request's response has not overwritten a newer one's.
C23_RowsOfCurrentPage ==
    (mounted = "HistoryViewPaged" /\ loads = <<>> /\ deletes = <<>> /\ error = NoError)
        => history = PageOf(stored, (currentPage - 1) * itemsPerPage, itemsPerPage)

\* C24: in the paginated view every selected id is the id of a displayed row.
C24_SelectionDisplayed ==
    mounted = "HistoryViewPaged" => selectedRows \subseteq Ids(history)

\* C25: in the paginated view with no load in flight the current page is at
\* least 1 and at most the last page, max(1, ceil(totalCount / itemsPerPage)).
C25_PageInRange ==
    (mounted = "HistoryViewPaged" /\ loads = <<>> /\ deletes = <<>> /\ totalCount.k = "num")
        => /\ 1 <= currentPage
           /\ currentPage <= (IF totalPages.n < 1 THEN 1 ELSE totalPages.n)

\* C26: a load of the paginated view that fails, at the rows or at the count,
\* has left the rows displayed as they were, and fails without changing
\* totalCount.
C26_FailedLoadChangesNothing ==
    [][(mounted = "HistoryViewPaged"
        /\ event'.type \in {"rowsRejected", "countRejected"})
            => /\ ~loads[event'.index].replaced
               /\ history' = history
               /\ totalCount' = totalCount]_vars

\* C27: in App an error message and a calculation result are never both present.
C27_ErrorOrResult ==
    mounted = "App" => ~(error # NoError /\ currentResult # NoResult)

\* C28: in BatchCalculator, while a submit is in flight isLoading is true,
\* results and error are both null and no submit can start; once it has
\* settled isLoading is false and exactly one of results and error is non-null.
C28_BatchSettles ==
    BatchMounted =>
        /\ request # NoRequest =>
            /\ isLoading /\ results = NoResults /\ error = NoError
            /\ ~ENABLED BatchHandleSubmit /\ ~ENABLED BatchHandleSubmitRate
        /\ request = NoRequest => ~isLoading
        /\ ~(results # NoResults /\ error # NoError)
        /\ event.type \in {"resolved", "rejected"} =>
            (results # NoResults) # (error # NoError)

\* the second revision after a batch that failed: the error alone
C28_Witness ==
    /\ mounted = "BatchCalculatorRate"
    /\ event.type = "rejected"
    /\ ~isLoading /\ request = NoRequest
    /\ error # NoError /\ results = NoResults
    /\ Len(calculations) = 2
====
